---- MODULE Spec2Model ----
(***************************************************************************)
(* Worker-offloaded transcoding pipeline of ffmpeg-minio-solutions.        *)
(*                                                                         *)
(* Two single-threaded event loops exchange messages:                      *)
(*   - the bridge (React hook useFfmpegWorker, src/unnamed/part_002)       *)
(*   - the worker (ffmpegWorker.ts), which owns one FFmpeg engine          *)
(* cmdQ carries commands bridge -> worker, evQ carries events back.        *)
(* Every action is one macrotask of one event loop: a handler runs from    *)
(* the message (or from the resolution of the operation it awaits) up to   *)
(* its next await of an operation that takes a macrotask to settle.        *)
(*                                                                         *)
(* The FFmpeg class is an external collaborator, modelled by its contract: *)
(* an operation issued on an instance whose load() was not called rejects  *)
(* at once, one issued while the core is not loaded rejects later, and     *)
(* terminate() rejects every pending operation of the instance.            *)
(*                                                                         *)
(* Every API call of the hook gets a number 1..MaxCalls; the command it    *)
(* posts and the worker task that handles the command carry that number.   *)
(*                                                                         *)
(* Three specifications:                                                   *)
(*   Spec   the whole system, bridge and worker                            *)
(*   SpecW  the worker alone, commands arriving in any order               *)
(*   SpecB  the bridge alone, events arriving in any order                 *)
(***************************************************************************)
EXTENDS Integers, Sequences, FiniteSets, TLC

\* ----- bounds -----
\* API calls of the hook (Spec)
MaxCalls == 3
\* commands that arrive at the worker (SpecW)
MaxCmds == 4
\* API calls of the hook and events that arrive at the bridge (SpecB)
MaxApi == 2
MaxEvents == 2
\* progress events an engine reports
MaxProgress == 1

\* API calls of the hook in the runs checked for progress (SpecL)
MaxLiveCalls == 2
\* calls of the asset cache functions (SpecC)
MaxCacheOps == 3
\* calls of init() and recorder finalizations of the capture session (SpecR)
MaxInits == 2
MaxStops == 2
\* largest target width and height given to scaleFilter (SpecF)
MaxDim == 7

\* progress ratios the engine may report, in percent (-0.2, 0.5, 1.7)
RatioVals == {-20, 50, 170}

IdMax == IF MaxCmds > MaxCalls THEN MaxCmds ELSE MaxCalls
CallIds == 1..IdMax

VARIABLES
    \* bridge (useFfmpegWorker)
    status, progress, error, previewUrl, snapshotUrl,
    previewUrlRef, snapshotUrlRef, workerRef, wlive, urls, btasks,
    \* channels
    cmdQ, evQ,
    \* worker (ffmpegWorker.ts module scope) and its engine
    wstate, ffmpeg, loading, busy, engSt, files, tasks, alive,
    \* history
    nCalls, nEv, jst, nProg, created, lastCmd,
    \* asset cache (ffmpegCache) and its callers
    hasCaches, bucketOf, cur, cops, nOps, lastMut,
    \* scaleFilter: its arguments and what it returned
    sfW, sfH, sfOut, sfDone,
    \* capture session (RecorderProvider): reducer state, refs, devices
    rStatus, rStream, rRecorder, rBlob, rObjectUrl, rUrlRef, rChunks, rChunksRef,
    rError, recs, strms, rUrls, rPending, nInit, nStop

bridgeVars == <<status, progress, error, previewUrl, snapshotUrl,
                previewUrlRef, snapshotUrlRef, workerRef, wlive, urls, btasks>>
workerVars == <<wstate, ffmpeg, loading, busy, engSt, files, tasks, alive>>
histVars == <<nCalls, nEv, jst, nProg, created, lastCmd>>
cacheVars == <<hasCaches, bucketOf, cur, cops, nOps, lastMut>>
fnVars == <<sfW, sfH, sfOut, sfDone>>
recVars == <<rStatus, rStream, rRecorder, rBlob, rObjectUrl, rUrlRef, rChunks, rChunksRef,
            rError, recs, strms, rUrls, rPending, nInit, nStop>>
auxVars == <<cacheVars, fnVars, recVars>>
convVars == <<bridgeVars, cmdQ, evQ, workerVars, histVars>>
nonCacheVars == <<convVars, fnVars, recVars>>
nonFnVars == <<convVars, cacheVars, recVars>>
nonRecVars == <<convVars, cacheVars, fnVars>>
vars == <<convVars, auxVars>>

\* ----- vocabulary -----
\* CORE_JS_URL and CORE_WASM_URL, the two keys of the bucket
Assets == {"js", "wasm"}
\* the streams and recorders that init() creates, one of each per call
DevIds == 1..MaxInits
\* a MediaRecorder: its state, and the dataavailable and stop events that its
\* stop has queued
NoRec == [state |-> "none", data |-> FALSE, stop |-> FALSE]
\* a call of a cache function
OpIds == 1..MaxCacheOps
\* the caches that carried the bucket name, one more after each caches.delete
Gens == 0..MaxCacheOps
NoOp == [kind |-> "none", pc |-> "none", h |-> 0, puts |-> {}, res |-> "none"]

WorkerStatus == {"idle", "loading", "ready", "working", "canceled", "error"}
\* positions of a worker task: awaiting toBlobURL, ffmpeg.load, writeFile, exec,
\* readFile, and the deleteFile calls of the finally block (one position: no
\* other handler can tell how many of them have settled)
EngineAwait == {"load", "write", "exec", "read", "del"}
JobBody == {"write", "exec", "read", "del"}
EngineWork == {"write", "exec", "read"}

NoTask == [kind |-> "none", toMp4 |-> TRUE, pc |-> "none", doomed |-> FALSE, exc |-> ""]

Cmd(t, id, cached, toMp4) == [type |-> t, id |-> id, cached |-> cached, toMp4 |-> toMp4]
Ev(t, job, ratio, kind, mime, msg) ==
    [type |-> t, job |-> job, ratio |-> ratio, kind |-> kind, mime |-> mime, msg |-> msg]
EvLoaded == Ev("loaded", 0, 0, "", "", "")
EvCanceled == Ev("canceled", 0, 0, "", "", "")
EvTerminated == Ev("terminated", 0, 0, "", "", "")
EvProgress(r) == Ev("progress", 0, r, "", "", "")
EvError(job, m) == Ev("error", job, 0, "", "", m)
EvResult(job, kind, mime) == Ev("result", job, 0, kind, mime, "")

\* ----- initial state -----
\* useState({ status: "idle", progress: 0 }) and the three refs
InitBridge ==
    /\ status = "idle" /\ progress = 0 /\ error = ""
    /\ previewUrl = 0 /\ snapshotUrl = 0
    /\ previewUrlRef = 0 /\ snapshotUrlRef = 0
    /\ workerRef = FALSE /\ wlive = 0 /\ urls = {}
    /\ btasks = [k \in CallIds |-> "none"]

\* module scope of the worker: ffmpeg = null, loading = false, busy = false
InitWorker ==
    /\ ffmpeg = 0 /\ loading = FALSE /\ busy = FALSE
    /\ engSt = "new" /\ files = {}
    /\ tasks = [k \in CallIds |-> NoTask]
    /\ alive = {}

InitHist ==
    /\ nCalls = 0 /\ nEv = 0 /\ nProg = 0 /\ created = 0
    /\ jst = [k \in CallIds |-> "none"]
    /\ lastCmd = "none"

\* the asset cache before any call: Cache Storage present, no bucket content
InitCache ==
    /\ hasCaches = TRUE
    /\ cur = 0
    /\ bucketOf = [g \in Gens |-> {}]
    /\ cops = [o \in OpIds |-> NoOp]
    /\ nOps = 0
    /\ lastMut = "none"

\* scaleFilter not called
InitFn == sfW = 0 /\ sfH = 0 /\ sfOut = <<>> /\ sfDone = FALSE

\* initialState of the reducer, urlRef = null, chunksRef = [], no device used
InitRec ==
    /\ rStatus = "idle" /\ rStream = 0 /\ rRecorder = 0
    /\ rBlob = 0 /\ rObjectUrl = 0 /\ rUrlRef = 0
    /\ rChunks = 0 /\ rChunksRef = 0 /\ rError = FALSE
    /\ recs = [r \in DevIds |-> NoRec]
    /\ strms = [d \in DevIds |-> "none"]
    /\ rUrls = {}
    /\ rPending = 0 /\ nInit = 0 /\ nStop = 0

InitAux == InitCache /\ InitFn /\ InitRec

Init ==
    /\ InitBridge /\ InitWorker /\ InitHist /\ InitAux
    /\ cmdQ = <<>> /\ evQ = <<>>
    /\ wstate = "none"

\* ===================== worker: ffmpegWorker.ts =====================

\* a finished task keeps the kind of its command
Finished(tk) == [NoTask EXCEPT !.kind = tk.kind, !.toMp4 = tk.toMp4, !.pc = "done"]
At(tk, pc, doomed, exc) == [tk EXCEPT !.pc = pc, !.doomed = doomed, !.exc = exc]

\* doPreview: outName is preview.mp4 unless toMp4 === false; doSnapshot: thumb.jpg
OutName(tk) ==
    IF tk.kind = "snapshot" THEN "thumb.jpg"
    ELSE IF tk.toMp4 # FALSE THEN "preview.mp4" ELSE "preview.webm"

\* a MIME type that ignores the output name of a preview
MimeAlwaysMp4(tk) ==
    IF tk.kind = "snapshot" THEN "image/jpeg" ELSE "video/mp4"

\* outName.endsWith(".mp4") ? "video/mp4" : "video/webm"; snapshots are image/jpeg
Mime(tk) ==
    IF tk.kind = "snapshot" THEN "image/jpeg"
    ELSE IF OutName(tk) = "preview.mp4" THEN "video/mp4" ELSE "video/webm"

\* the files the deleteFile calls of the finally block name
DelTargets(tk) ==
    IF tk.kind = "snapshot" THEN {"thumb.jpg", "input"}
    ELSE {"preview.mp4", "preview.webm", "input"}

\* an operation issued on an engine whose core is not loaded will reject
Doomed(es) == es # "loaded"

\* JobStart without the busy check of self.onmessage
JobStartNoBusyCheck(t, tk, pre, f, es) ==
    IF f = 0 THEN
        /\ evQ' = evQ \o pre \o <<EvError(t, "FFmpeg is not loaded")>>
        /\ tasks' = [tasks EXCEPT ![t] = Finished(tk)]
        /\ busy' = busy
    ELSE IF es = "new" THEN
        /\ evQ' = evQ \o pre \o <<EvError(t, "notloaded")>>
        /\ tasks' = [tasks EXCEPT ![t] = Finished(tk)]
        /\ busy' = FALSE
    ELSE
        /\ evQ' = evQ \o pre
        /\ tasks' = [tasks EXCEPT ![t] = At(tk, "write", Doomed(es), "")]
        /\ busy' = TRUE

\* The job branch of self.onmessage after `await ensureLoaded()` returned:
\* the busy check, then doPreview/doSnapshot up to its first await.
\* pre: events already posted in this step; f, es: the engine reference and
\* engine state this step leaves.
JobStart(t, tk, pre, f, es) ==
    IF busy THEN
        /\ evQ' = evQ \o pre \o <<EvError(t, "busy")>>
        /\ tasks' = [tasks EXCEPT ![t] = Finished(tk)]
        /\ busy' = busy
    ELSE IF f = 0 THEN
        /\ evQ' = evQ \o pre \o <<EvError(t, "FFmpeg is not loaded")>>
        /\ tasks' = [tasks EXCEPT ![t] = Finished(tk)]
        /\ busy' = busy
    ELSE IF es = "new" THEN
        \* load() was never called on the instance: writeFile and the
        \* deleteFile calls reject within the same macrotask
        /\ evQ' = evQ \o pre \o <<EvError(t, "notloaded")>>
        /\ tasks' = [tasks EXCEPT ![t] = Finished(tk)]
        /\ busy' = FALSE
    ELSE
        /\ evQ' = evQ \o pre
        /\ tasks' = [tasks EXCEPT ![t] = At(tk, "write", Doomed(es), "")]
        /\ busy' = TRUE

\* what the handler does once ensureLoaded returned without awaiting
Continue(t, tk, f, es) ==
    IF tk.kind = "load"
    THEN /\ tasks' = [tasks EXCEPT ![t] = Finished(tk)]
         /\ UNCHANGED <<evQ, busy>>
    ELSE JobStart(t, tk, <<>>, f, es)

\* OnWork with an ensureLoaded that lacks `if (loading) return`
OnWorkNoCoalesce(c) ==
    /\ LET t == c.id
           tk == [NoTask EXCEPT !.kind = c.type, !.toMp4 = c.toMp4]
           f1 == IF ffmpeg = 0 THEN created + 1 ELSE ffmpeg
           es1 == IF ffmpeg = 0 THEN "new" ELSE engSt
       IN
       /\ IF ffmpeg # 0 /\ ~loading THEN
              /\ Continue(t, tk, ffmpeg, engSt)
              /\ UNCHANGED <<ffmpeg, loading, engSt, files, created, alive>>
          ELSE
              /\ ffmpeg' = f1
              /\ alive' = IF ffmpeg = 0 THEN alive \cup {f1} ELSE alive
              /\ created' = IF ffmpeg = 0 THEN created + 1 ELSE created
              /\ files' = IF ffmpeg = 0 THEN {} ELSE files
              /\ loading' = TRUE
              /\ UNCHANGED <<evQ, busy>>
              /\ IF c.type = "load" /\ c.cached
                 THEN /\ engSt' = IF es1 = "new" THEN "loading" ELSE es1
                      /\ tasks' = [tasks EXCEPT ![t] = At(tk, "load", FALSE, "")]
                 ELSE /\ engSt' = es1
                      /\ tasks' = [tasks EXCEPT ![t] = At(tk, "fetch", FALSE, "")]

\* self.onmessage for a load, preview or snapshot command c, through
\* ensureLoaded, up to the first operation it has to wait for
OnWork(c) ==
    /\ LET t == c.id
           tk == [NoTask EXCEPT !.kind = c.type, !.toMp4 = c.toMp4]
           f1 == IF ffmpeg = 0 THEN created + 1 ELSE ffmpeg
           es1 == IF ffmpeg = 0 THEN "new" ELSE engSt
       IN
       /\ IF ffmpeg # 0 /\ ~loading THEN
              /\ Continue(t, tk, ffmpeg, engSt)
              /\ UNCHANGED <<ffmpeg, loading, engSt, files, created, alive>>
          ELSE
              /\ ffmpeg' = f1
              /\ alive' = IF ffmpeg = 0 THEN alive \cup {f1} ELSE alive
              /\ created' = IF ffmpeg = 0 THEN created + 1 ELSE created
              /\ files' = IF ffmpeg = 0 THEN {} ELSE files
              /\ IF loading THEN
                     /\ Continue(t, tk, f1, es1)
                     /\ engSt' = es1
                     /\ UNCHANGED loading
                 ELSE
                     /\ loading' = TRUE
                     /\ UNCHANGED <<evQ, busy>>
                     /\ IF c.type = "load" /\ c.cached
                        THEN /\ engSt' = "loading"
                             /\ tasks' = [tasks EXCEPT ![t] = At(tk, "load", FALSE, "")]
                        ELSE /\ engSt' = es1
                             /\ tasks' = [tasks EXCEPT ![t] = At(tk, "fetch", FALSE, "")]

RecvWork ==
    /\ wstate = "alive"
    /\ cmdQ # <<>>
    /\ Head(cmdQ).type \in {"load", "preview", "snapshot"}
    /\ OnWork(Head(cmdQ))
    /\ cmdQ' = Tail(cmdQ)
    /\ UNCHANGED <<bridgeVars, wstate, nCalls, nEv, jst, nProg, lastCmd>>
    /\ UNCHANGED auxVars

\* terminate() rejects what the tasks await on the engine: the error each
\* aborted task ends with ("" when it returns normally)
AbortMsg(tk) ==
    IF tk.pc \in {"load", "write", "exec", "read"} THEN "terminated" ELSE tk.exc

RECURSIVE AbortEvs(_)
AbortEvs(k) ==
    IF k = 0 THEN <<>>
    ELSE AbortEvs(k - 1) \o
         (IF tasks[k].pc \in EngineAwait /\ AbortMsg(tasks[k]) # ""
          THEN <<EvError(k, AbortMsg(tasks[k]))>> ELSE <<>>)

\* cancelCurrent without its early return when there is no engine
cancelCurrentAlways(extra) ==
    /\ ffmpeg' = 0
    /\ alive' = alive \ {ffmpeg}
    /\ loading' = FALSE
    /\ busy' = FALSE
    /\ engSt' = "new"
    /\ files' = {}
    /\ evQ' = evQ \o <<EvCanceled>> \o extra \o AbortEvs(IdMax)
    /\ tasks' = [k \in CallIds |->
                    IF tasks[k].pc \in EngineAwait THEN Finished(tasks[k]) ELSE tasks[k]]

\* cancelCurrent that drops the reference without terminate()
cancelCurrentNoTerminate(extra) ==
    IF ffmpeg = 0 THEN
        /\ evQ' = evQ \o extra
        /\ UNCHANGED <<ffmpeg, loading, busy, engSt, files, tasks, alive>>
    ELSE
        /\ alive' = alive
        /\ ffmpeg' = 0
        /\ loading' = FALSE
        /\ busy' = FALSE
        /\ engSt' = "new"
        /\ files' = {}
        /\ evQ' = evQ \o <<EvCanceled>> \o extra \o AbortEvs(IdMax)
        /\ tasks' = [k \in CallIds |->
                        IF tasks[k].pc \in EngineAwait THEN Finished(tasks[k]) ELSE tasks[k]]

\* cancelCurrent, followed by extra events of the caller and by the handlers
\* that terminate() makes fail
cancelCurrent(extra) ==
    IF ffmpeg = 0 THEN
        /\ evQ' = evQ \o extra
        /\ UNCHANGED <<ffmpeg, loading, busy, engSt, files, tasks, alive>>
    ELSE
        /\ alive' = alive \ {ffmpeg}
        /\ ffmpeg' = 0
        /\ loading' = FALSE
        /\ busy' = FALSE
        /\ engSt' = "new"
        /\ files' = {}
        /\ evQ' = evQ \o <<EvCanceled>> \o extra \o AbortEvs(IdMax)
        /\ tasks' = [k \in CallIds |->
                        IF tasks[k].pc \in EngineAwait THEN Finished(tasks[k]) ELSE tasks[k]]

RecvCancel ==
    /\ wstate = "alive"
    /\ cmdQ # <<>>
    /\ Head(cmdQ).type = "cancel"
    /\ cmdQ' = Tail(cmdQ)
    /\ cancelCurrent(<<>>)
    /\ UNCHANGED <<bridgeVars, wstate, histVars>>
    /\ UNCHANGED auxVars

\* the terminate command is handled only when the worker picks it up before
\* Worker.terminate() of the bridge takes effect
RecvTerminate ==
    /\ wstate \in {"alive", "dying"}
    /\ cmdQ # <<>>
    /\ Head(cmdQ).type = "terminate"
    /\ cmdQ' = Tail(cmdQ)
    /\ cancelCurrent(<<EvTerminated>>)
    /\ UNCHANGED <<bridgeVars, wstate, histVars>>
    /\ UNCHANGED auxVars

\* toBlobURL of ensureLoaded settles, then ffmpeg!.load is called
FetchDone(t, ok) ==
    /\ wstate = "alive"
    /\ tasks[t].pc = "fetch"
    /\ IF ~ok THEN
           /\ evQ' = Append(evQ, EvError(t, "fetch"))
           /\ tasks' = [tasks EXCEPT ![t] = Finished(tasks[t])]
           /\ UNCHANGED engSt
       ELSE IF ffmpeg = 0 THEN
           /\ evQ' = Append(evQ, EvError(t, "null"))
           /\ tasks' = [tasks EXCEPT ![t] = Finished(tasks[t])]
           /\ UNCHANGED engSt
       ELSE
           /\ engSt' = IF engSt = "new" THEN "loading" ELSE engSt
           /\ tasks' = [tasks EXCEPT ![t] = At(tasks[t], "load", FALSE, "")]
           /\ UNCHANGED evQ
    /\ UNCHANGED <<bridgeVars, cmdQ, wstate, ffmpeg, alive, loading, busy, files, histVars>>
    /\ UNCHANGED auxVars

\* ffmpeg.load settles; on success loading is cleared and loaded is posted
LoadDone(t, ok) ==
    /\ wstate = "alive"
    /\ tasks[t].pc = "load"
    /\ IF ~ok THEN
           /\ evQ' = Append(evQ, EvError(t, "engine"))
           /\ tasks' = [tasks EXCEPT ![t] = Finished(tasks[t])]
           /\ UNCHANGED <<engSt, loading, busy>>
       ELSE
           /\ engSt' = "loaded"
           /\ loading' = FALSE
           /\ IF tasks[t].kind = "load"
              THEN /\ evQ' = Append(evQ, EvLoaded)
                   /\ tasks' = [tasks EXCEPT ![t] = Finished(tasks[t])]
                   /\ UNCHANGED busy
              ELSE JobStart(t, tasks[t], <<EvLoaded>>, ffmpeg, "loaded")
    /\ UNCHANGED <<bridgeVars, cmdQ, wstate, ffmpeg, alive, files, histVars>>
    /\ UNCHANGED auxVars

\* writeFile, exec or readFile of a job settles
OpDone(t, ok) ==
    /\ wstate = "alive"
    /\ tasks[t].pc \in EngineWork
    /\ ok => ~tasks[t].doomed
    /\ LET tk == tasks[t] IN
       IF ~ok THEN
           /\ tasks' = [tasks EXCEPT ![t] =
                 At(tk, "del", Doomed(engSt), IF tk.doomed THEN "notloaded" ELSE "engine")]
           /\ UNCHANGED <<files, evQ>>
       ELSE IF tk.pc = "write" THEN
           /\ files' = files \cup {"input"}
           /\ tasks' = [tasks EXCEPT ![t] = At(tk, "exec", Doomed(engSt), "")]
           /\ UNCHANGED evQ
       ELSE IF tk.pc = "exec" THEN
           /\ files' = files \cup {OutName(tk)}
           /\ tasks' = [tasks EXCEPT ![t] = At(tk, "read", Doomed(engSt), "")]
           /\ UNCHANGED evQ
       ELSE
           /\ evQ' = Append(evQ, EvResult(t, tk.kind, Mime(tk)))
           /\ tasks' = [tasks EXCEPT ![t] = At(tk, "del", Doomed(engSt), "")]
           /\ UNCHANGED files
    /\ UNCHANGED <<bridgeVars, cmdQ, wstate, ffmpeg, alive, loading, busy, engSt, histVars>>
    /\ UNCHANGED auxVars

\* DelDone with deleteFile calls that remove nothing
DelDoneKeepFiles(t) ==
    /\ wstate = "alive"
    /\ tasks[t].pc = "del"
    /\ LET tk == tasks[t] IN
       /\ files' = files
       /\ busy' = FALSE
       /\ tasks' = [tasks EXCEPT ![t] = Finished(tk)]
       /\ evQ' = IF tk.exc # "" THEN Append(evQ, EvError(t, tk.exc)) ELSE evQ
    /\ UNCHANGED <<bridgeVars, cmdQ, wstate, ffmpeg, alive, loading, engSt, histVars>>
    /\ UNCHANGED auxVars

\* DelDone with a finally block that does not release busy
DelDoneKeepBusy(t) ==
    /\ wstate = "alive"
    /\ tasks[t].pc = "del"
    /\ LET tk == tasks[t] IN
       /\ files' = IF Doomed(engSt) THEN files ELSE files \ DelTargets(tk)
       /\ busy' = busy
       /\ tasks' = [tasks EXCEPT ![t] = Finished(tk)]
       /\ evQ' = IF tk.exc # "" THEN Append(evQ, EvError(t, tk.exc)) ELSE evQ
    /\ UNCHANGED <<bridgeVars, cmdQ, wstate, ffmpeg, alive, loading, engSt, histVars>>
    /\ UNCHANGED auxVars

\* the deleteFile calls of the finally block have settled: busy is released
\* and a pending exception reaches the catch of self.onmessage
DelDone(t) ==
    /\ wstate = "alive"
    /\ tasks[t].pc = "del"
    /\ LET tk == tasks[t] IN
       /\ files' = IF Doomed(engSt) THEN files ELSE files \ DelTargets(tk)
       /\ busy' = FALSE
       /\ tasks' = [tasks EXCEPT ![t] = Finished(tk)]
       /\ evQ' = IF tk.exc # "" THEN Append(evQ, EvError(t, tk.exc)) ELSE evQ
    /\ UNCHANGED <<bridgeVars, cmdQ, wstate, ffmpeg, alive, loading, engSt, histVars>>
    /\ UNCHANGED auxVars

\* the progress listener wired by ensureLoaded forwards the ratio unchanged
EngineProgress(t, r) ==
    /\ wstate = "alive"
    /\ tasks[t].pc = "exec"
    /\ ~tasks[t].doomed
    /\ nProg < MaxProgress
    /\ nProg' = nProg + 1
    /\ evQ' = Append(evQ, EvProgress(r))
    /\ UNCHANGED <<bridgeVars, cmdQ, workerVars, nCalls, nEv, jst, created, lastCmd>>
    /\ UNCHANGED auxVars



\* ===================== bridge: useFfmpegWorker =====================

\* ensureWorker: the worker held by workerRef, or a new one with a fresh
\* module scope (ffmpeg = null, loading = busy = false)
ensureWorker ==
    /\ wstate' = "alive"
    /\ workerRef' = TRUE
    /\ wlive' = IF workerRef THEN wlive ELSE wlive + 1
    /\ UNCHANGED <<ffmpeg, loading, busy, engSt, files, tasks, alive>>

\* a worker that terminate() stopped is gone before the next call of the hook
CanCall ==
    /\ wstate # "dying"
    /\ nCalls < MaxCalls

\* loadCore up to its await of getCoreBlobURLsFromCache, or up to postMessage
\* when preferCache is false
loadCore(preferCache) ==
    /\ CanCall
    /\ ensureWorker
    /\ nCalls' = nCalls + 1
    /\ status' = "loading" /\ progress' = 0 /\ error' = ""
    /\ IF preferCache
       THEN /\ btasks' = [btasks EXCEPT ![nCalls + 1] = "load"]
            /\ UNCHANGED cmdQ
       ELSE /\ cmdQ' = Append(cmdQ, Cmd("load", nCalls + 1, FALSE, TRUE))
            /\ UNCHANGED btasks
    /\ UNCHANGED <<previewUrl, snapshotUrl, previewUrlRef, snapshotUrlRef, urls,
                   evQ, nEv, jst, nProg, created, lastCmd>>
    /\ UNCHANGED auxVars

\* loadCore after getCoreBlobURLsFromCache settled: a pair of references,
\* null, or a rejection that leaves loadCore without posting
loadCorePost(k, res) ==
    /\ btasks[k] = "load"
    /\ btasks' = [btasks EXCEPT ![k] = "none"]
    /\ cmdQ' = IF res = "throw" THEN cmdQ
               ELSE Append(cmdQ, Cmd("load", k, res = "cached", TRUE))
    /\ UNCHANGED <<status, progress, error, previewUrl, snapshotUrl, previewUrlRef,
                   snapshotUrlRef, workerRef, wlive, urls, evQ, workerVars, histVars>>
    /\ UNCHANGED auxVars

\* makeJob without the return on status "working"
makeJobNoGate(kind, toMp4) ==
    /\ CanCall
    /\ ensureWorker
    /\ nCalls' = nCalls + 1
    /\ status' = "working" /\ progress' = 0 /\ error' = ""
    /\ btasks' = [btasks EXCEPT ![nCalls + 1] =
                     IF kind = "snapshot" THEN "snapshot"
                     ELSE IF toMp4 THEN "preview" ELSE "previewWebm"]
    /\ jst' = [jst EXCEPT ![nCalls + 1] = "active"]
    /\ UNCHANGED <<previewUrl, snapshotUrl, previewUrlRef, snapshotUrlRef, urls,
                   cmdQ, evQ, nEv, nProg, created, lastCmd>>
    /\ UNCHANGED auxVars

\* makePreview / makeSnapshot up to the await of file.arrayBuffer()
makeJob(kind, toMp4) ==
    /\ CanCall
    /\ ensureWorker
    /\ nCalls' = nCalls + 1
    /\ IF status = "working"
       THEN /\ jst' = [jst EXCEPT ![nCalls + 1] = "gated"]
            /\ UNCHANGED <<status, progress, error, btasks>>
       ELSE /\ status' = "working" /\ progress' = 0 /\ error' = ""
            /\ btasks' = [btasks EXCEPT ![nCalls + 1] =
                             IF kind = "snapshot" THEN "snapshot"
                             ELSE IF toMp4 THEN "preview" ELSE "previewWebm"]
            /\ jst' = [jst EXCEPT ![nCalls + 1] = "active"]
    /\ UNCHANGED <<previewUrl, snapshotUrl, previewUrlRef, snapshotUrlRef, urls,
                   cmdQ, evQ, nEv, nProg, created, lastCmd>>
    /\ UNCHANGED auxVars

makePreview(toMp4) == makeJob("preview", toMp4)

makeSnapshot == makeJob("snapshot", TRUE)

\* makePreview / makeSnapshot after file.arrayBuffer() settled
makeJobPost(k, ok) ==
    /\ btasks[k] \in {"preview", "previewWebm", "snapshot"}
    /\ btasks' = [btasks EXCEPT ![k] = "none"]
    /\ cmdQ' = IF ~ok THEN cmdQ
               ELSE Append(cmdQ, Cmd(IF btasks[k] = "snapshot" THEN "snapshot" ELSE "preview",
                                     k, FALSE, btasks[k] # "previewWebm"))
    /\ UNCHANGED <<status, progress, error, previewUrl, snapshotUrl, previewUrlRef,
                   snapshotUrlRef, workerRef, wlive, urls, evQ, workerVars, histVars>>
    /\ UNCHANGED auxVars

cancel ==
    /\ CanCall
    /\ ensureWorker
    /\ nCalls' = nCalls + 1
    /\ cmdQ' = Append(cmdQ, Cmd("cancel", nCalls + 1, FALSE, TRUE))
    /\ jst' = [k \in CallIds |-> IF jst[k] = "active" THEN "marked" ELSE jst[k]]
    /\ UNCHANGED <<status, progress, error, previewUrl, snapshotUrl, previewUrlRef,
                   snapshotUrlRef, urls, btasks, evQ, nEv, nProg, created, lastCmd>>
    /\ UNCHANGED auxVars

\* terminate that forgets the worker without calling w.terminate()
terminateKeepsWorker ==
    /\ CanCall
    /\ nCalls' = nCalls + 1
    /\ wstate' = "dying"
    /\ workerRef' = FALSE
    /\ wlive' = IF workerRef THEN wlive ELSE wlive + 1
    /\ cmdQ' = Append(cmdQ, Cmd("terminate", nCalls + 1, FALSE, TRUE))
    /\ btasks' = [k \in CallIds |-> "none"]
    /\ UNCHANGED <<status, progress, error, previewUrl, snapshotUrl, previewUrlRef,
                   snapshotUrlRef, urls, evQ,
                   ffmpeg, loading, busy, engSt, files, tasks, alive, nEv, jst, nProg,
                   created, lastCmd>>
    /\ UNCHANGED auxVars

\* terminate: the command is posted, then the worker is terminated and
\* forgotten; what pending calls post later goes to the terminated worker
terminate ==
    /\ CanCall
    /\ nCalls' = nCalls + 1
    /\ wstate' = "dying"
    /\ workerRef' = FALSE
    /\ wlive' = IF workerRef THEN wlive - 1 ELSE wlive
    /\ cmdQ' = Append(cmdQ, Cmd("terminate", nCalls + 1, FALSE, TRUE))
    /\ btasks' = [k \in CallIds |-> "none"]
    /\ UNCHANGED <<status, progress, error, previewUrl, snapshotUrl, previewUrlRef,
                   snapshotUrlRef, urls, evQ,
                   ffmpeg, loading, busy, engSt, files, tasks, alive, nEv, jst, nProg,
                   created, lastCmd>>
    /\ UNCHANGED auxVars

\* Worker.terminate() takes effect: the worker's scope and queued commands are
\* gone; events it had posted are delivered up to some point
Prefixes(q) == {SubSeq(q, 1, n) : n \in 0..Len(q)}

Kill ==
    /\ wstate = "dying"
    /\ wstate' = "none"
    /\ cmdQ' = <<>>
    /\ evQ' \in Prefixes(evQ)
    /\ ffmpeg' = 0 /\ loading' = FALSE /\ busy' = FALSE
    /\ engSt' = "new" /\ files' = {} /\ alive' = {}
    /\ tasks' = [k \in CallIds |->
                    IF tasks[k].pc \in {"none", "done"} THEN tasks[k] ELSE Finished(tasks[k])]
    /\ UNCHANGED <<bridgeVars, histVars>>
    /\ UNCHANGED auxVars

\* the object URLs minted so far, each live or revoked
Mint(reg, url, kind) == reg \cup {[id |-> url, kind |-> kind, live |-> TRUE]}
\* a revokeObjectURL that revokes nothing
RevokeNothing(reg, url) == reg

Revoke(reg, url) == {[u EXCEPT !.live = u.live /\ u.id # url] : u \in reg}

\* the cleanup effect at unmount: both references are revoked, the worker is
\* terminated and forgotten
unmount ==
    /\ wstate # "dying"
    /\ urls' = Revoke(Revoke(urls, previewUrlRef), snapshotUrlRef)
    /\ wstate' = IF workerRef THEN "dying" ELSE wstate
    /\ wlive' = IF workerRef THEN wlive - 1 ELSE wlive
    /\ workerRef' = FALSE
    /\ btasks' = [k \in CallIds |-> "none"]
    /\ UNCHANGED <<status, progress, error, previewUrl, snapshotUrl, previewUrlRef,
                   snapshotUrlRef, cmdQ, evQ,
                   ffmpeg, loading, busy, engSt, files, tasks, alive, histVars>>
    /\ UNCHANGED auxVars

SetState(st, pr, er, pu, su) ==
    status' = st /\ progress' = pr /\ error' = er /\ previewUrl' = pu /\ snapshotUrl' = su

\* w.onmessage for one event msg of the worker; url is the reference that
\* URL.createObjectURL mints for a result
OnEvent(msg, url) ==
    /\ CASE msg.type = "loaded" ->
              /\ SetState("ready", progress, error, previewUrl, snapshotUrl)
              /\ UNCHANGED <<previewUrlRef, snapshotUrlRef, urls>>
         [] msg.type = "progress" ->
              /\ SetState(status, msg.ratio, error, previewUrl, snapshotUrl)
              /\ UNCHANGED <<previewUrlRef, snapshotUrlRef, urls>>
         [] msg.type = "result" /\ msg.kind = "preview" ->
              /\ urls' = Revoke(Mint(urls, url, "preview"), previewUrlRef)
              /\ previewUrlRef' = url
              /\ SetState("ready", 100, error, url, snapshotUrl)
              /\ UNCHANGED snapshotUrlRef
         [] msg.type = "result" /\ msg.kind = "snapshot" ->
              /\ urls' = Revoke(Mint(urls, url, "snapshot"), snapshotUrlRef)
              /\ snapshotUrlRef' = url
              /\ SetState("ready", 100, error, previewUrl, url)
              /\ UNCHANGED previewUrlRef
         [] msg.type = "canceled" ->
              /\ SetState("canceled", 0, error, previewUrl, snapshotUrl)
              /\ UNCHANGED <<previewUrlRef, snapshotUrlRef, urls>>
         [] msg.type = "terminated" ->
              /\ SetState("idle", 0, "", 0, 0)
              /\ UNCHANGED <<previewUrlRef, snapshotUrlRef, urls>>
         [] msg.type = "error" ->
              /\ SetState("error", progress, msg.msg, previewUrl, snapshotUrl)
              /\ UNCHANGED <<previewUrlRef, snapshotUrlRef, urls>>
    /\ UNCHANGED <<workerRef, wlive, btasks>>

\* history: a result delivered for a job that cancel() found unresolved is "bad"
Resolve(msg) ==
    IF msg.job \notin CallIds THEN jst
    ELSE IF msg.type = "result"
    THEN [jst EXCEPT ![msg.job] = IF @ = "marked" THEN "bad" ELSE "resolved"]
    ELSE IF msg.type = "error" /\ jst[msg.job] = "active"
    THEN [jst EXCEPT ![msg.job] = "resolved"]
    ELSE jst

\* every job posts at most one result, so its number names the reference
onmessage ==
    /\ evQ # <<>>
    /\ evQ' = Tail(evQ)
    /\ OnEvent(Head(evQ), Head(evQ).job)
    /\ jst' = Resolve(Head(evQ))
    /\ UNCHANGED <<cmdQ, workerVars, nCalls, nEv, nProg, created, lastCmd>>
    /\ UNCHANGED auxVars

\* ===================== the whole system =====================

Next ==
    \/ \E pc \in BOOLEAN : loadCore(pc)
    \/ \E k \in CallIds, res \in {"cached", "absent", "throw"} : loadCorePost(k, res)
    \/ \E m \in BOOLEAN : makePreview(m)
    \/ makeSnapshot
    \/ \E k \in CallIds, ok \in BOOLEAN : makeJobPost(k, ok)
    \/ cancel
    \/ terminate
    \/ Kill
    \/ onmessage
    \/ RecvWork
    \/ RecvCancel
    \/ RecvTerminate
    \/ \E t \in CallIds, ok \in BOOLEAN : FetchDone(t, ok)
    \/ \E t \in CallIds, ok \in BOOLEAN : LoadDone(t, ok)
    \/ \E t \in CallIds, ok \in BOOLEAN : OpDone(t, ok)
    \/ \E t \in CallIds : DelDone(t)
    \/ \E t \in CallIds, r \in RatioVals : EngineProgress(t, r)

Spec == Init /\ [][Next]_vars


\* ===================== the worker alone =====================
\* Commands reach self.onmessage in any order and at any moment (lastCmd is
\* the one that arrived last); the events the worker posts leave evQ unobserved.

InitW ==
    /\ InitBridge /\ InitWorker /\ InitHist /\ InitAux
    /\ cmdQ = <<>> /\ evQ = <<>>
    /\ wstate = "alive"

ArriveWork(type, cached, toMp4) ==
    /\ nCalls < MaxCmds
    /\ nCalls' = nCalls + 1
    /\ lastCmd' = type
    /\ OnWork(Cmd(type, nCalls + 1, cached, toMp4))
    /\ UNCHANGED <<bridgeVars, cmdQ, wstate, nEv, jst, nProg>>
    /\ UNCHANGED auxVars

ArriveCancel ==
    /\ nCalls < MaxCmds
    /\ nCalls' = nCalls + 1
    /\ lastCmd' = "cancel"
    /\ cancelCurrent(<<>>)
    /\ UNCHANGED <<bridgeVars, cmdQ, wstate, nEv, jst, nProg, created>>
    /\ UNCHANGED auxVars

ArriveTerminate ==
    /\ nCalls < MaxCmds
    /\ nCalls' = nCalls + 1
    /\ lastCmd' = "terminate"
    /\ cancelCurrent(<<EvTerminated>>)
    /\ UNCHANGED <<bridgeVars, cmdQ, wstate, nEv, jst, nProg, created>>
    /\ UNCHANGED auxVars

\* post: the events of the last macrotask have left the worker (nothing the
\* worker does depends on when they leave, so they leave before its next step)
Drain ==
    /\ evQ # <<>>
    /\ evQ' = <<>>
    /\ UNCHANGED <<bridgeVars, cmdQ, workerVars, histVars>>
    /\ UNCHANGED auxVars

WorkerStep ==
    \/ \E c \in BOOLEAN : ArriveWork("load", c, TRUE)
    \/ \E m \in BOOLEAN : ArriveWork("preview", FALSE, m)
    \/ ArriveWork("snapshot", FALSE, TRUE)
    \/ ArriveCancel
    \/ ArriveTerminate
    \/ \E t \in CallIds, ok \in BOOLEAN : FetchDone(t, ok)
    \/ \E t \in CallIds, ok \in BOOLEAN : LoadDone(t, ok)
    \/ \E t \in CallIds, ok \in BOOLEAN : OpDone(t, ok)
    \/ \E t \in CallIds : DelDone(t)
    \/ \E t \in CallIds, r \in RatioVals : EngineProgress(t, r)

NextW ==
    \/ evQ = <<>> /\ WorkerStep
    \/ Drain

SpecW == InitW /\ [][NextW]_vars

\* ===================== the bridge alone =====================
\* Events reach w.onmessage in any order; the commands the bridge posts are
\* taken by a worker that is not observed.

\* what a worker can post (workerMessages.ts, WorkerEvent)
WorkerEvents ==
    {EvLoaded, EvCanceled, EvTerminated}
    \cup {EvProgress(r) : r \in RatioVals}
    \cup {EvError(0, m) : m \in {"busy", "engine"}}
    \cup {EvResult(0, "preview", "video/mp4"), EvResult(0, "snapshot", "image/jpeg")}

\* an event arrives; each URL.createObjectURL mints a reference never seen
EventArrives(msg) ==
    /\ nCalls > 0
    /\ nEv < MaxEvents
    /\ nEv' = nEv + 1
    /\ OnEvent(msg, nEv + 1)
    /\ UNCHANGED <<cmdQ, evQ, workerVars, nCalls, jst, nProg, created, lastCmd>>
    /\ UNCHANGED auxVars

Take ==
    /\ wstate = "alive"
    /\ cmdQ # <<>>
    /\ cmdQ' = Tail(cmdQ)
    /\ UNCHANGED <<bridgeVars, evQ, workerVars, histVars>>
    /\ UNCHANGED auxVars

ApiCall ==
    \/ \E pc \in BOOLEAN : loadCore(pc)
    \/ \E m \in BOOLEAN : makePreview(m)
    \/ makeSnapshot
    \/ cancel
    \/ terminate

NextB ==
    \/ nCalls < MaxApi /\ ApiCall
    \/ nCalls > 0 /\ unmount
    \/ \E k \in CallIds, res \in {"cached", "absent", "throw"} : loadCorePost(k, res)
    \/ \E k \in CallIds, ok \in BOOLEAN : makeJobPost(k, ok)
    \/ Kill
    \/ Take
    \/ \E msg \in WorkerEvents : EventArrives(msg)

SpecB == Init /\ [][NextB]_vars


\* ===================== properties =====================

IsJob(tk) == tk.kind \in {"preview", "snapshot"}
\* the tasks that run the body of doPreview / doSnapshot
InFlight == {t \in CallIds : tasks[t].pc \in JobBody}
HasEvent(q, e) == \E i \in 1..Len(q) : q[i] = e

\* C1: in the worker at most one preview/snapshot job is in flight at any
\* time, and a job command that arrives while a job is in flight is finished
\* by the step that receives it: it starts no engine work and is not kept
\* waiting (SpecW: every interleaving of the five commands).
C1_SingleFlight ==
    /\ [](Cardinality(InFlight) <= 1)
    /\ [][(nCalls' = nCalls + 1 /\ lastCmd' \in {"preview", "snapshot"} /\ InFlight # {})
            => (tasks'[nCalls'].pc = "done" /\ InFlight' = InFlight
                /\ \A t \in InFlight : tasks'[t] = tasks[t])]_vars

\* a job is in flight and the command that arrived last was a job: it was
\* answered busy and is finished
C1_Witness ==
    /\ InFlight # {}
    /\ nCalls \notin InFlight
    /\ nCalls > 0
    /\ lastCmd \in {"preview", "snapshot"}
    /\ tasks[nCalls].pc = "done"
    /\ HasEvent(evQ, EvError(nCalls, "busy"))

\* C9: a cancel command that arrives when no engine instance exists changes
\* nothing: no event is posted (so no error), the engine reference and the
\* loading and busy flags keep their values, and so does every task; hence any
\* number of consecutive cancels leaves the worker as one does (SpecW).
C9_CancelNoEngineNoOp ==
    [][(nCalls' = nCalls + 1 /\ lastCmd' = "cancel" /\ ffmpeg = 0)
         => (evQ' = evQ /\ UNCHANGED <<ffmpeg, loading, busy, engSt, files, tasks>>)]_vars

\* two cancels in a row arrived at a worker that never had an engine
C9_Witness ==
    /\ lastCmd = "cancel"
    /\ nCalls >= 2
    /\ created = 0
    /\ ffmpeg = 0 /\ ~loading /\ ~busy
    /\ evQ = <<>>


\* the worker takes a command of the given type from cmdQ (Spec)
RecvStep(type) ==
    /\ wstate = "alive" /\ wstate' = "alive"
    /\ cmdQ # <<>>
    /\ Head(cmdQ).type = type
    /\ cmdQ' = Tail(cmdQ)

\* a preview command the worker has received and not finished
UnresolvedPreview(j) ==
    /\ tasks[j].kind = "preview"
    /\ tasks[j].pc \in {"fetch", "load"} \cup JobBody

\* C2 (as claimed): a preview command received while an earlier preview is
\* unresolved is answered with the busy error and leaves the earlier one
\* alone, and a preview that waits for its auto-load is never answered busy.
C2_SecondPreviewBusy ==
    /\ [][(RecvStep("preview") /\ \E j \in CallIds : UnresolvedPreview(j))
            => (/\ evQ' = Append(evQ, EvError(Head(cmdQ).id, "busy"))
                /\ \A j \in CallIds : UnresolvedPreview(j) => tasks'[j] = tasks[j])]_vars
    /\ [][\A j \in CallIds :
            (tasks[j].kind = "preview" /\ tasks[j].pc \in {"fetch", "load"})
              => ~HasEvent(evQ', EvError(j, "busy"))]_vars

\* C3 (as claimed): no result is delivered to the bridge for a job that was
\* accepted and still unresolved when the foreground called cancel().
C3_NoResultAfterCancel == \A k \in CallIds : jst[k] # "bad"

\* C4 (as claimed): the observable progress lies in [0,1] (0..100 percent).
C4_ProgressClamped == progress \in 0..100

\* C5: of each kind, at most one object URL is live after every event the
\* bridge handles (SpecB: any sequence of events).
C5_OneLiveRefPerKind ==
    \A kind \in {"preview", "snapshot"} :
        Cardinality({u \in urls : u.kind = kind /\ u.live}) <= 1

\* a second result of a kind arrived: its reference is live, the first revoked
C5_Witness ==
    \E u, v \in urls : u.kind = v.kind /\ ~u.live /\ v.live

\* C6: a call of makePreview or makeSnapshot while the status is working posts
\* no command, now or later, and leaves the references, the progress, the
\* error and the status as they are (SpecB).
C6_WorkingGate ==
    [][(nCalls' = nCalls + 1 /\ jst'[nCalls'] # "none" /\ status = "working")
         => UNCHANGED <<cmdQ, btasks, status, progress, error, previewUrl, snapshotUrl,
                        previewUrlRef, snapshotUrlRef, urls>>]_vars

\* makePreview or makeSnapshot was called while the status was working
C6_Witness == \E k \in CallIds : jst[k] = "gated" /\ status = "working"

\* C7 (as claimed): a job writes, executes or reads only on an engine whose
\* load has completed.
C7_WorkOnlyOnLoadedEngine ==
    \A t \in CallIds : tasks[t].pc \in EngineWork => engSt = "loaded"

\* C8 (as claimed): every cancel command the worker handles leaves no engine,
\* loading and busy false, and posts canceled.
C8_CancelAlwaysCanceled ==
    [][RecvStep("cancel")
         => (/\ ffmpeg' = 0 /\ ~loading' /\ ~busy'
             /\ Len(evQ') > Len(evQ)
             /\ evQ'[Len(evQ) + 1] = EvCanceled)]_vars

\* C10 (as claimed): a job that is writing, executing or reading when cancel
\* or terminate tears the engine down produces no error event.
C10_AbortedJobNoError ==
    [][\A t \in CallIds :
         (IsJob(tasks[t]) /\ tasks[t].pc \in EngineWork /\ ffmpeg # 0 /\ ffmpeg' = 0)
           => ~HasEvent(evQ', EvError(t, "terminated"))]_vars


\* C11: when a started job ends (success, a failed step, or cancel/terminate)
\* busy is false and no file of the job is left on the engine; while busy is
\* false the engine holds no file, so busy is never released before the
\* removals (SpecW).
C11_CleanupOnEnd ==
    /\ [][\A t \in CallIds :
            (IsJob(tasks[t]) /\ tasks[t].pc \in JobBody /\ tasks'[t].pc = "done")
              => (~busy' /\ files' = {})]_vars
    /\ [](~busy => files = {})

\* a single preview command ran its body on a loaded engine that survives,
\* and has ended
C11_Witness ==
    /\ nCalls = 1 /\ lastCmd = "preview"
    /\ tasks[1].pc = "done"
    /\ ffmpeg = 1 /\ engSt = "loaded"
    /\ ~busy /\ files = {}


\* C12: at most one engine instance is alive (created, not terminated), it is
\* the one the engine reference holds, an instance is created only when the
\* reference is null, and the reference is nulled only with its instance
\* terminated (SpecW).
C12_OneEngineAlive ==
    /\ [](Cardinality(alive) <= 1 /\ alive = (IF ffmpeg = 0 THEN {} ELSE {ffmpeg}))
    /\ [][(created' # created) => (ffmpeg = 0 /\ ffmpeg' = created')]_vars
    /\ [][(ffmpeg # 0 /\ ffmpeg' = 0) => ffmpeg \notin alive']_vars

\* a second instance is the reference after the first was terminated
C12_Witness == created >= 2 /\ ffmpeg = created /\ alive = {created}


\* the handler runs that are inside the load part of ensureLoaded
Loading == {t \in CallIds : tasks[t].pc \in {"fetch", "load"}}

\* C13: a load command that arrives while loading is set is absorbed: it
\* creates no instance, starts no engine load, posts no event and changes
\* nothing of the worker; as long as no instance was torn down, one handler
\* run at most is loading the engine (SpecW).
C13_LoadCoalesced ==
    /\ [][(nCalls' = nCalls + 1 /\ lastCmd' = "load" /\ loading)
            => (/\ tasks'[nCalls'].pc = "done"
                /\ evQ' = evQ /\ created' = created
                /\ UNCHANGED <<ffmpeg, loading, busy, engSt, files, alive>>
                /\ \A t \in CallIds \ {nCalls'} : tasks'[t] = tasks[t])]_vars
    /\ [](created <= 1 => Cardinality(Loading) <= 1)

\* two load commands arrived while the first load was in flight and were
\* absorbed; the first is still loading the one instance
C13_Witness ==
    /\ nCalls >= 3 /\ lastCmd = "load" /\ loading /\ created = 1
    /\ tasks[1].kind = "load" /\ Loading = {1}
    /\ \A t \in 2..nCalls : tasks[t].kind = "load" /\ tasks[t].pc = "done"


\* C14 (as claimed): a makePreview/makeSnapshot call that the bridge refuses
\* because the status is working changes the observable status or the error
\* message.
C14_RefusalLeavesTrace ==
    [][(nCalls' = nCalls + 1 /\ jst'[nCalls'] = "gated")
         => (status' # status \/ error' # error)]_vars

\* C15 (as claimed): when loadCore or makePreview/makeSnapshot ends without
\* posting its command, because reading the cached assets or the input blob
\* failed, the observable status becomes error.
C15_FailureReported ==
    [][\A k \in CallIds :
         (btasks[k] # "none" /\ btasks'[k] = "none" /\ cmdQ' = cmdQ)
           => status' = "error"]_vars



\* ===================== asset cache: ffmpegCache =====================
\* Each call of a cache function is an operation o of cops: its kind, where
\* it is (pc), the cache it opened (h), the cache.put calls it still awaits
\* (puts) and what it returned (res, "none" while it runs).  bucketOf[g] is
\* the content of the g-th cache that carried FFMPEG_CACHE_NAME: caches.delete
\* drops the name, a cache opened before stays usable by its holder.

\* the bucket that caches.open(FFMPEG_CACHE_NAME) gives now
bucket == bucketOf[cur]

\* a bucket content reported as cached whenever it holds some asset
BothAny(c) == c # {}

\* !!(jsRes && wasmRes), !jsRes || !wasmRes
Both(c) == "js" \in c /\ "wasm" \in c

\* FfmpegCacheManager runs one of handlePrecache / handleClear at a time
Mutating == \E o \in OpIds : cops[o].kind \in {"warm", "clear"} /\ cops[o].res = "none"

\* a call starts: without Cache Storage it returns at once with noApi
CacheCall(kind, pc, noApi) ==
    /\ nOps < MaxCacheOps
    /\ nOps' = nOps + 1
    /\ cops' = [cops EXCEPT ![nOps + 1] =
                  IF hasCaches THEN [NoOp EXCEPT !.kind = kind, !.pc = pc]
                  ELSE [NoOp EXCEPT !.kind = kind, !.pc = "done", !.res = noApi]]

isCoreCached ==
    /\ CacheCall("isCached", "open", "false")
    /\ UNCHANGED <<hasCaches, bucketOf, cur, lastMut, nonCacheVars>>

getCoreBlobURLsFromCache ==
    /\ CacheCall("getRefs", "open", "null")
    /\ UNCHANGED <<hasCaches, bucketOf, cur, lastMut, nonCacheVars>>

cacheCoreAssets ==
    /\ ~Mutating
    /\ CacheCall("warm", "open", "throw")
    /\ UNCHANGED <<hasCaches, bucketOf, cur, lastMut, nonCacheVars>>

clearCoreCache ==
    /\ ~Mutating
    /\ CacheCall("clear", "delete", "ok")
    /\ lastMut' = IF hasCaches THEN lastMut ELSE "clear"
    /\ UNCHANGED <<hasCaches, bucketOf, cur, nonCacheVars>>

\* await caches.open(FFMPEG_CACHE_NAME) settles; the matches or fetches follow
CacheOpened(o) ==
    /\ cops[o].pc = "open"
    /\ cops' = [cops EXCEPT ![o].h = cur,
                            ![o].pc = IF cops[o].kind = "warm" THEN "fetch" ELSE "match"]
    /\ UNCHANGED <<hasCaches, bucketOf, cur, nOps, lastMut, nonCacheVars>>

\* the two cache.match calls settle
Matched(o) ==
    /\ cops[o].pc = "match"
    /\ LET c == bucketOf[cops[o].h] IN
       cops' = [cops EXCEPT ![o] =
                  IF cops[o].kind = "isCached"
                  THEN [@ EXCEPT !.pc = "done", !.res = IF Both(c) THEN "true" ELSE "false"]
                  ELSE IF ~Both(c)
                  THEN [@ EXCEPT !.pc = "done", !.res = "null"]
                  ELSE [@ EXCEPT !.pc = "blob"]]
    /\ UNCHANGED <<hasCaches, bucketOf, cur, nOps, lastMut, nonCacheVars>>

\* jsRes.blob() and wasmRes.blob() settle; two object URLs are minted
BlobDone(o, ok) ==
    /\ cops[o].pc = "blob"
    /\ cops' = [cops EXCEPT ![o].pc = "done", ![o].res = IF ok THEN "pair" ELSE "throw"]
    /\ UNCHANGED <<hasCaches, bucketOf, cur, nOps, lastMut, nonCacheVars>>

\* Fetched with the two puts started before the statuses are looked at
FetchedPutsFirst(o, jsOk, wasmOk) ==
    /\ cops[o].pc = "fetch"
    /\ cops' = [cops EXCEPT ![o] =
                  IF jsOk /\ wasmOk THEN [@ EXCEPT !.pc = "put", !.puts = Assets]
                  ELSE [@ EXCEPT !.pc = "put", !.puts = Assets, !.res = "throwFetch"]]
    /\ UNCHANGED <<hasCaches, bucketOf, cur, nOps, lastMut, nonCacheVars>>

\* the two fetches settle: a rejected fetch or a status that is not ok makes
\* cacheCoreAssets throw ("Failed to fetch ...") before any put
Fetched(o, jsOk, wasmOk) ==
    /\ cops[o].pc = "fetch"
    /\ cops' = [cops EXCEPT ![o] =
                  IF jsOk /\ wasmOk THEN [@ EXCEPT !.pc = "put", !.puts = Assets]
                  ELSE [@ EXCEPT !.pc = "done", !.res = "throwFetch"]]
    /\ UNCHANGED <<hasCaches, bucketOf, cur, nOps, lastMut, nonCacheVars>>

\* one cache.put settles: Promise.all rejects on the first put that fails and
\* fulfils when both are stored; a put still running lands afterwards
PutDone(o, a, ok) ==
    /\ cops[o].pc = "put"
    /\ a \in cops[o].puts
    /\ LET rest == cops[o].puts \ {a}
           res == IF cops[o].res # "none" THEN cops[o].res
                  ELSE IF ~ok THEN "throw"
                  ELSE IF rest = {} THEN "ok" ELSE "none"
       IN
       /\ cops' = [cops EXCEPT ![o].puts = rest, ![o].res = res,
                               ![o].pc = IF rest = {} THEN "done" ELSE "put"]
       /\ lastMut' = IF cops[o].res = "none" /\ res = "ok" THEN "warmOk" ELSE lastMut
    /\ bucketOf' = IF ok THEN [bucketOf EXCEPT ![cops[o].h] = @ \cup {a}] ELSE bucketOf
    /\ UNCHANGED <<hasCaches, cur, nOps, nonCacheVars>>

\* await caches.delete(FFMPEG_CACHE_NAME) settles: the name has no cache, the
\* next open creates an empty one
Deleted(o) ==
    /\ cops[o].pc = "delete"
    /\ cur' = cur + 1
    /\ cops' = [cops EXCEPT ![o].pc = "done", ![o].res = "ok"]
    /\ lastMut' = "clear"
    /\ UNCHANGED <<hasCaches, bucketOf, nOps, nonCacheVars>>

\* any environment (with or without Cache Storage) and any bucket content
InitC ==
    /\ InitBridge /\ InitWorker /\ InitHist
    /\ cmdQ = <<>> /\ evQ = <<>>
    /\ wstate = "none"
    /\ hasCaches \in BOOLEAN
    /\ cur = 0
    /\ \E c \in SUBSET Assets :
          /\ hasCaches \/ c = {}
          /\ bucketOf = [g \in Gens |-> IF g = 0 THEN c ELSE {}]
    /\ cops = [o \in OpIds |-> NoOp]
    /\ nOps = 0
    /\ lastMut = "none"
    /\ InitFn /\ InitRec

NextC ==
    \/ isCoreCached
    \/ getCoreBlobURLsFromCache
    \/ cacheCoreAssets
    \/ clearCoreCache
    \/ \E o \in OpIds : CacheOpened(o)
    \/ \E o \in OpIds : Matched(o)
    \/ \E o \in OpIds, ok \in BOOLEAN : BlobDone(o, ok)
    \/ \E o \in OpIds, jsOk \in BOOLEAN, wasmOk \in BOOLEAN : Fetched(o, jsOk, wasmOk)
    \/ \E o \in OpIds, a \in Assets, ok \in BOOLEAN : PutDone(o, a, ok)
    \/ \E o \in OpIds : Deleted(o)

SpecC == InitC /\ [][NextC]_vars

\* C16: a query that reads the bucket as it is (no clear since it opened it)
\* answers by both keys: isCoreCached returns true iff both are present,
\* getCoreBlobURLsFromCache goes on to the pair iff both are present and
\* returns null otherwise; it returns a pair only after that, and without
\* Cache Storage the answers are false and null (SpecC).
C16_BothOrAbsent ==
    /\ [][\A o \in OpIds :
            (cops[o].pc = "match" /\ cops'[o].pc # "match" /\ cops[o].h = cur)
              => IF cops[o].kind = "isCached"
                 THEN cops'[o].res = (IF Assets \subseteq bucket THEN "true" ELSE "false")
                 ELSE IF Assets \subseteq bucket
                 THEN cops'[o].pc = "blob" /\ cops'[o].res = "none"
                 ELSE cops'[o].pc = "done" /\ cops'[o].res = "null"]_vars
    /\ [][\A o \in OpIds : (cops[o].res # "pair" /\ cops'[o].res = "pair") => cops[o].pc = "blob"]_vars
    /\ [](~hasCaches => \A o \in OpIds :
            /\ cops[o].kind = "isCached" => cops[o].res = "false"
            /\ cops[o].kind = "getRefs" => cops[o].res = "null")

\* on a bucket that holds one asset of the two, isCoreCached returned false
\* and getCoreBlobURLsFromCache returned null
C16_Witness ==
    /\ Cardinality(bucket) = 1 /\ cur = 0 /\ nOps = 2
    /\ cops[1].kind = "isCached" /\ cops[1].res = "false"
    /\ cops[2].kind = "getRefs" /\ cops[2].res = "null"

\* C17 (as claimed): after a warm that succeeded the bucket holds both assets
\* until the next clear, and after a clear it does not hold both until the
\* next warm that succeeds.
C17_WarmClear ==
    /\ lastMut = "warmOk" => Assets \subseteq bucket
    /\ lastMut = "clear" => ~(Assets \subseteq bucket)



\* ===================== scaleFilter (ffmpegWorker.ts) =====================
\* A dimension is a positive integer, or 0 for one that is absent (undefined
\* and 0 are both falsy in the tests of scaleFilter).  A scale expression
\* `scale=W:H` is the record of its two fields; -2 is the field ffmpeg
\* computes from the aspect ratio.
Dims == 0..MaxDim

ScaleExpr(w, h) == [w |-> w, h |-> h]

\* scaleFilter whose tests do not exclude each other
scaleFilterNoGuards(w, h) ==
    LET vf == (IF h # 0 THEN <<ScaleExpr(-2, h)>> ELSE <<>>)
              \o (IF w # 0 THEN <<ScaleExpr(w, -2)>> ELSE <<>>)
              \o (IF w # 0 /\ h # 0 THEN <<ScaleExpr(w, h)>> ELSE <<>>)
    IN IF Len(vf) # 0 THEN <<"-vf", vf>> ELSE <<>>

\* vf collects the expressions; the result is ["-vf", vf.join(",")] or []
scaleFilter(w, h) ==
    LET vf == (IF h # 0 /\ w = 0 THEN <<ScaleExpr(-2, h)>> ELSE <<>>)
              \o (IF w # 0 /\ h = 0 THEN <<ScaleExpr(w, -2)>> ELSE <<>>)
              \o (IF w # 0 /\ h # 0 THEN <<ScaleExpr(w, h)>> ELSE <<>>)
    IN IF Len(vf) # 0 THEN <<"-vf", vf>> ELSE <<>>

\* doPreview / doSnapshot: const vf = scaleFilter({ width, height })
CallScaleFilter ==
    /\ ~sfDone
    /\ sfDone' = TRUE
    /\ sfOut' = scaleFilter(sfW, sfH)
    /\ UNCHANGED <<sfW, sfH, nonFnVars>>

InitF ==
    /\ InitBridge /\ InitWorker /\ InitHist /\ InitCache /\ InitRec
    /\ cmdQ = <<>> /\ evQ = <<>>
    /\ wstate = "none"
    /\ sfW \in Dims /\ sfH \in Dims
    /\ sfOut = <<>> /\ sfDone = FALSE

NextF == CallScaleFilter

SpecF == InitF /\ [][NextF]_vars

\* C18: height only gives scale=-2:H, width only gives scale=W:-2, both give
\* scale=W:H, neither gives no arguments; never more than one expression
\* (SpecF).
C18_ScaleFilter ==
    sfDone =>
      /\ (sfH > 0 /\ sfW = 0) => sfOut = <<"-vf", <<[w |-> -2, h |-> sfH]>>>>
      /\ (sfW > 0 /\ sfH = 0) => sfOut = <<"-vf", <<[w |-> sfW, h |-> -2]>>>>
      /\ (sfW > 0 /\ sfH > 0) => sfOut = <<"-vf", <<[w |-> sfW, h |-> sfH]>>>>
      /\ (sfW = 0 /\ sfH = 0) => sfOut = <<>>
      /\ sfOut # <<>> => Len(sfOut[2]) = 1

\* called with both dimensions: one exact expression came back
C18_Witness ==
    sfDone /\ sfW > 0 /\ sfH > 0 /\ sfW # sfH /\ Len(sfOut) = 2 /\ sfOut[2][1].w = sfW


\* C19: every result event carries the kind of its command, and the MIME type
\* that the command fixes: image/jpeg for a snapshot, video/mp4 for a preview
\* unless its toMp4 is false, then video/webm (SpecW).
C19_ResultKindMime ==
    \A i \in 1..Len(evQ) :
        evQ[i].type = "result" =>
            LET tk == tasks[evQ[i].job] IN
            /\ IsJob(tk)
            /\ evQ[i].kind = tk.kind
            /\ evQ[i].mime = (IF tk.kind = "snapshot" THEN "image/jpeg"
                              ELSE IF tk.toMp4 = FALSE THEN "video/webm" ELSE "video/mp4")

\* a preview with toMp4 false posted its result
C19_Witness ==
    \E i \in 1..Len(evQ) :
        /\ evQ[i].type = "result" /\ evQ[i].kind = "preview" /\ evQ[i].mime = "video/webm"
        /\ tasks[evQ[i].job].toMp4 = FALSE

\* ---------------------------------------------------------------------------
\* The capture session (RecorderProvider).  One action is one task of the main
\* thread: a call of the API with the state of the last render, the settling of
\* getUserMedia, or an event of a MediaRecorder.
\* ---------------------------------------------------------------------------

\* the reducer's SET_ERROR: status "error" and a message
SET_ERROR == rStatus' = "error" /\ rError' = TRUE

\* a revokeObjectURL that leaves the reference live
RevokeUrlRefNothing(live) == live

\* URL.revokeObjectURL(urlRef.current) when the reference is set
RevokeUrlRef(live) == live \ {rUrlRef}

\* streams obtained so far, and recordings that are running or about to be
\* finalized
Acquired == {d \in DevIds : strms[d] # "none"}
Unfinished == {r \in DevIds : recs[r].state = "recording" \/ recs[r].stop}

\* init(): up to the await of requestUserMedia
init ==
    /\ nInit < MaxInits
    /\ nInit' = nInit + 1
    /\ rPending' = rPending + 1
    /\ UNCHANGED <<rStatus, rStream, rRecorder, rBlob, rObjectUrl, rUrlRef, rChunks,
                   rChunksRef, rError, recs, strms, rUrls, nStop>>
    /\ UNCHANGED nonRecVars

\* init(): requestUserMedia settles.  "ok": stream and recorder are stored and
\* the output state is cleared; "denied": getUserMedia rejects; "norecorder":
\* the MediaRecorder constructor throws on the stream just obtained
initDone(outcome) ==
    /\ rPending > 0
    /\ rPending' = rPending - 1
    /\ LET d == Cardinality(Acquired) + 1 IN
       CASE outcome = "ok" ->
              /\ strms' = [strms EXCEPT ![d] = "live"]
              /\ recs' = [recs EXCEPT ![d] = [state |-> "inactive", data |-> FALSE, stop |-> FALSE]]
              /\ rStream' = d /\ rRecorder' = d
              /\ rStatus' = "ready"
              /\ rChunks' = 0
              /\ rBlob' = 0 /\ rObjectUrl' = 0
              /\ UNCHANGED rError
         [] outcome = "norecorder" ->
              /\ strms' = [strms EXCEPT ![d] = "live"]
              /\ SET_ERROR
              /\ UNCHANGED <<recs, rStream, rRecorder, rChunks, rBlob, rObjectUrl>>
         [] OTHER ->
              /\ SET_ERROR
              /\ UNCHANGED <<strms, recs, rStream, rRecorder, rChunks, rBlob, rObjectUrl>>
    /\ UNCHANGED <<rUrlRef, rChunksRef, rUrls, nInit, nStop>>
    /\ UNCHANGED nonRecVars

\* start(): MediaRecorder.start() throws unless the recorder is inactive
start ==
    /\ rRecorder # 0 /\ rStatus # "recording"
    /\ nStop + Cardinality(Unfinished) < MaxStops
    /\ rChunks' = 0 /\ rChunksRef' = 0
    /\ IF recs[rRecorder].state = "inactive"
         THEN /\ recs' = [recs EXCEPT ![rRecorder].state = "recording"]
              /\ rStatus' = "recording"
              /\ UNCHANGED rError
         ELSE /\ SET_ERROR
              /\ UNCHANGED recs
    /\ UNCHANGED <<rStream, rRecorder, rBlob, rObjectUrl, rUrlRef, strms, rUrls,
                   rPending, nInit, nStop>>
    /\ UNCHANGED nonRecVars

\* MediaRecorder.stop() on a running recorder: inactive at once, dataavailable
\* and stop are queued
Stopping(r) == [recs EXCEPT ![r] = [state |-> "inactive", data |-> TRUE, stop |-> TRUE]]

\* stop(): on a recorder that is already inactive the call does nothing or
\* throws InvalidStateError, depending on the browser
stop(throws) ==
    /\ rRecorder # 0 /\ rStatus = "recording"
    /\ IF recs[rRecorder].state = "recording"
         THEN /\ recs' = Stopping(rRecorder)
              /\ UNCHANGED <<rStatus, rError>>
         ELSE /\ UNCHANGED recs
              /\ IF throws THEN SET_ERROR ELSE UNCHANGED <<rStatus, rError>>
    /\ UNCHANGED <<rStream, rRecorder, rBlob, rObjectUrl, rUrlRef, rChunks, rChunksRef,
                   strms, rUrls, rPending, nInit, nStop>>
    /\ UNCHANGED nonRecVars

\* recorder.ondataavailable with a chunk that is not empty
ondataavailable(r) ==
    /\ recs[r].data
    /\ recs' = [recs EXCEPT ![r].data = FALSE]
    /\ rChunksRef' = rChunksRef + 1
    /\ rChunks' = rChunks + 1
    /\ UNCHANGED <<rStatus, rStream, rRecorder, rBlob, rObjectUrl, rUrlRef, rError,
                   strms, rUrls, rPending, nInit, nStop>>
    /\ UNCHANGED nonRecVars

\* recorder.onstop: the final blob and its object URL (an empty dataavailable
\* before it was ignored)
onstop(r) ==
    /\ recs[r].stop
    /\ recs' = [recs EXCEPT ![r] = [state |-> "inactive", data |-> FALSE, stop |-> FALSE]]
    /\ nStop' = nStop + 1
    /\ rBlob' = nStop + 1
    /\ rChunks' = 0 /\ rChunksRef' = 0
    /\ rUrls' = RevokeUrlRef(rUrls) \cup {nStop + 1}
    /\ rUrlRef' = nStop + 1
    /\ rObjectUrl' = nStop + 1
    /\ rStatus' = "stopped"
    /\ UNCHANGED <<rStream, rRecorder, rError, strms, rPending, nInit>>
    /\ UNCHANGED nonRecVars

\* recorder.onerror: the recorder fails while recording and stops itself
onerror(r) ==
    /\ recs[r].state = "recording"
    /\ recs' = Stopping(r)
    /\ SET_ERROR
    /\ UNCHANGED <<rStream, rRecorder, rBlob, rObjectUrl, rUrlRef, rChunks, rChunksRef,
                   strms, rUrls, rPending, nInit, nStop>>
    /\ UNCHANGED nonRecVars

\* reset()
reset ==
    /\ rUrls' = RevokeUrlRef(rUrls)
    /\ rUrlRef' = 0
    /\ rObjectUrl' = 0
    /\ rChunks' = 0 /\ rChunksRef' = 0
    /\ rStatus' = IF rStream # 0 THEN "ready" ELSE "idle"
    /\ UNCHANGED <<rStream, rRecorder, rBlob, rError, recs, strms, rPending, nInit, nStop>>
    /\ UNCHANGED nonRecVars

\* cleanup()
cleanup ==
    /\ strms' = IF rStream # 0 THEN [strms EXCEPT ![rStream] = "stopped"] ELSE strms
    /\ recs' = IF rRecorder # 0 /\ recs[rRecorder].state = "recording"
                 THEN Stopping(rRecorder) ELSE recs
    /\ rUrls' = RevokeUrlRef(rUrls)
    /\ rUrlRef' = 0
    /\ rStream' = 0 /\ rRecorder' = 0
    /\ rBlob' = 0 /\ rObjectUrl' = 0
    /\ rChunks' = 0 /\ rChunksRef' = 0
    /\ rStatus' = "idle"
    /\ UNCHANGED <<rError, rPending, nInit, nStop>>
    /\ UNCHANGED nonRecVars

InitR ==
    /\ InitBridge /\ InitWorker /\ InitHist /\ InitCache /\ InitFn /\ InitRec
    /\ cmdQ = <<>> /\ evQ = <<>>
    /\ wstate = "none"

NextR ==
    \/ init
    \/ \E outcome \in {"ok", "denied", "norecorder"} : initDone(outcome)
    \/ start
    \/ \E throws \in BOOLEAN : stop(throws)
    \/ \E r \in DevIds : ondataavailable(r)
    \/ \E r \in DevIds : onstop(r)
    \/ \E r \in DevIds : onerror(r)
    \/ reset
    \/ cleanup

SpecR == InitR /\ [][NextR]_vars

\* C20: in every reachable state of the capture session the object URL of the
\* recording is set exactly when the final blob is set.
C20_UrlIffBlob == (rObjectUrl # 0) <=> (rBlob # 0)

\* C21 (as claimed): start() called in status idle, recording or error does
\* not start the recorder, does not clear the chunks and does not change the
\* status.
C21_StartOnlyReadyStopped ==
    [][(start /\ rStatus \in {"idle", "recording", "error"})
         => UNCHANGED <<rStatus, recs, rChunks, rChunksRef>>]_vars

\* the state cleanup() leaves
TornDown ==
    /\ rStatus = "idle" /\ rStream = 0 /\ rRecorder = 0
    /\ rBlob = 0 /\ rObjectUrl = 0 /\ rUrlRef = 0 /\ rUrls = {}
    /\ rChunks = 0 /\ rChunksRef = 0

\* C22 (as claimed): cleanup() in any state leaves status idle, no stream, no
\* recorder, no blob, no live object URL and no chunks, and the session stays
\* so until an init() settles; an event of a recorder that fires after the
\* teardown changes none of this.
C22_TeardownStays ==
    /\ [][cleanup => TornDown']_vars
    /\ [][(TornDown /\ ~(\E o \in {"ok", "denied", "norecorder"} : initDone(o)))
            => TornDown']_vars

\* command t is a job, it is the last command that arrived, and the command
\* before it was a cancel or a terminate (these start no task)
JobAfterCancel(t) ==
    /\ t > 1 /\ nCalls = t
    /\ IsJob(tasks[t])
    /\ tasks[t - 1].kind = "none"

\* C23 (as claimed): the preview/snapshot command that follows a cancel or a
\* terminate, in whatever state these found the worker, creates a fresh engine
\* instance and starts its load, and is never answered with the busy error; when
\* its load succeeds the step posts loaded and the job is writing its input on
\* that instance.
C23_JobAfterCancelRuns ==
    /\ [][(nCalls' = nCalls + 1 /\ lastCmd' \in {"preview", "snapshot"}
           /\ lastCmd \in {"cancel", "terminate"})
            => (/\ created' = created + 1 /\ ffmpeg' = created'
                /\ loading' /\ tasks'[nCalls'].pc = "fetch")]_vars
    /\ [][\A t \in CallIds :
            JobAfterCancel(t) => ~HasEvent(evQ', EvError(t, "busy"))]_vars
    /\ [][\A t \in CallIds :
            (JobAfterCancel(t) /\ tasks[t].pc = "load" /\ tasks'[t].pc # "load"
             /\ nCalls' = nCalls /\ ~HasEvent(evQ', EvError(t, "engine")))
              => (/\ HasEvent(evQ', EvLoaded)
                  /\ tasks'[t].pc = "write" /\ ~tasks'[t].doomed
                  /\ ffmpeg' = created)]_vars

\* the events of q that name job t
EventsOf(q, t) == SelectSeq(q, LAMBDA e : e.job = t)

\* C24: a job whose writeFile, exec or readFile fails on a loaded engine posts
\* nothing when the operation fails and exactly one event, its error, when its
\* finally block has run; that step leaves busy false and the same engine
\* instance loaded, and a finished job posts nothing more.  A job command that
\* arrives at a loaded, idle engine starts writing on it without a new
\* instance and without a load (SpecW).
C24_FailedJobKeepsEngine ==
    /\ [][\A t \in CallIds :
            (IsJob(tasks[t]) /\ tasks[t].pc \in EngineWork
             /\ tasks'[t].pc = "del" /\ tasks'[t].exc = "engine")
              => (evQ' = <<>> /\ busy' /\ ffmpeg' = ffmpeg /\ engSt' = "loaded")]_vars
    /\ [][\A t \in CallIds :
            (IsJob(tasks[t]) /\ tasks[t].pc = "del" /\ tasks[t].exc = "engine"
             /\ tasks'[t].pc = "done" /\ ffmpeg' # 0)
              => (/\ evQ' = <<EvError(t, "engine")>>
                  /\ ~busy' /\ ~loading'
                  /\ ffmpeg' = ffmpeg /\ engSt' = "loaded" /\ alive' = {ffmpeg})]_vars
    /\ [][\A t \in CallIds : tasks[t].pc = "done" => EventsOf(evQ', t) = <<>>]_vars
    /\ [][(nCalls' = nCalls + 1 /\ lastCmd' \in {"preview", "snapshot"}
           /\ ffmpeg # 0 /\ engSt = "loaded" /\ ~busy /\ ~loading)
            => (/\ tasks'[nCalls'].pc = "write" /\ ~tasks'[nCalls'].doomed
                /\ evQ' = <<>> /\ busy'
                /\ created' = created /\ ffmpeg' = ffmpeg /\ engSt' = "loaded")]_vars

\* the first job failed in the engine: its error is the one event posted, the
\* engine is still loaded and busy is released
C24_Witness ==
    /\ nCalls = 1 /\ IsJob(tasks[1]) /\ tasks[1].pc = "done"
    /\ evQ = <<EvError(1, "engine")>>
    /\ ffmpeg = 1 /\ engSt = "loaded" /\ ~busy /\ ~loading

\* the worker runs a job that has posted neither its result nor an error
JobRunning ==
    /\ wstate = "alive" /\ busy
    /\ \E t \in CallIds : IsJob(tasks[t]) /\ tasks[t].pc \in EngineWork

\* C25 (as claimed): while the worker runs a job that has produced no result,
\* error or cancel, the status of the bridge is working; the loaded event of
\* the auto-load and the busy error of a rejected job leave it working.
C25_WorkingWhileJob ==
    /\ [](JobRunning => status = "working")
    /\ [][(JobRunning /\ JobRunning' /\ evQ # <<>> /\ evQ' = Tail(evQ)
           /\ (Head(evQ).type = "loaded" \/ Head(evQ).msg = "busy"))
            => status' = "working"]_vars

\* ===================== the whole system, with progress =====================
\* The calls of the API come when the foreground makes them, or never; a
\* continuation of an API call, a message in a queue, Worker.terminate() and
\* an operation of the engine are not delayed forever.

SysStep ==
    \/ \E k \in CallIds, res \in {"cached", "absent", "throw"} : loadCorePost(k, res)
    \/ \E k \in CallIds, ok \in BOOLEAN : makeJobPost(k, ok)
    \/ Kill
    \/ onmessage
    \/ RecvWork
    \/ RecvCancel
    \/ RecvTerminate
    \/ \E t \in CallIds, ok \in BOOLEAN : FetchDone(t, ok)
    \/ \E t \in CallIds, ok \in BOOLEAN : LoadDone(t, ok)
    \/ \E t \in CallIds, ok \in BOOLEAN : OpDone(t, ok)
    \/ \E t \in CallIds : DelDone(t)
    \/ \E t \in CallIds, r \in RatioVals : EngineProgress(t, r)

NextL ==
    \/ nCalls < MaxLiveCalls /\ ApiCall
    \/ SysStep

SpecL == Init /\ [][NextL]_vars /\ WF_vars(SysStep)

\* C26 (as claimed): after every call of loadCore() the status eventually
\* leaves loading, whatever the state of the worker's engine at the call.
C26_LoadingEnds == (status = "loading") ~> (status # "loading")

\* C27 (as claimed): the loading flag of the worker is true only while a
\* handler is fetching the core or awaiting ffmpeg.load; after a load that
\* failed it is false again.
C27_LoadingOnlyInFlight == loading => Loading # {}

\* C28 (as claimed): after terminate() of the bridge, called in any status, the
\* status becomes idle with progress 0.
C28_TerminateGoesIdle == (wstate = "dying") ~> (status = "idle" /\ progress = 0)

\* cancel() was called while the status was loading, and no API call follows
\* it in this run: its command is queued and is the last call
CancelAtLoading ==
    /\ status = "loading"
    /\ nCalls = MaxLiveCalls
    /\ \E i \in 1..Len(cmdQ) : cmdQ[i].type = "cancel" /\ cmdQ[i].id = nCalls

\* C29 (as claimed): cancel() called while the status is loading, even before
\* loadCore has posted its load command, makes the status canceled, and the
\* status does not become ready afterwards as long as no load or job is
\* requested.
C29_CancelWhileLoading ==
    CancelAtLoading ~> (status = "canceled" /\ [](status # "ready"))

\* the terminal events of job t up to the end of a step: a result posted
\* earlier (the job is in its finally block without an exception), and the
\* result, error and canceled events that the step posts
Terminals(t) ==
    (IF tasks[t].pc = "del" /\ tasks[t].exc = "" THEN 1 ELSE 0)
    + Len(EventsOf(evQ', t))
    + Len(SelectSeq(evQ', LAMBDA e : e.type = "canceled"))

\* C30 (as claimed): a job that passed the busy check and started has, when it
\* ends, produced exactly one terminal event: its result, or its error, or the
\* canceled event of the cancel or terminate that aborted it; and it posts
\* nothing before it ends except its result (SpecW).
C30_OneTerminalEvent ==
    /\ [][\A t \in CallIds :
            (IsJob(tasks[t]) /\ tasks[t].pc \in JobBody /\ tasks'[t].pc = "done")
              => Terminals(t) = 1]_vars
    /\ [][\A t \in CallIds :
            (IsJob(tasks[t]) /\ tasks[t].pc \in JobBody /\ tasks'[t].pc \in JobBody)
              => (EventsOf(evQ', t) = <<>>
                  \/ (tasks[t].pc = "read" /\ tasks'[t].pc = "del"
                      /\ EventsOf(evQ', t) = <<EvResult(t, tasks[t].kind, Mime(tasks[t]))>>))]_vars

\* C31 (as claimed): the makePreview/makeSnapshot call that follows a
\* terminate(), in whatever status terminate() was called, creates a fresh
\* worker and goes on to post its command: it is not refused.
C31_JobAfterTerminate ==
    [][(nCalls' = nCalls + 1 /\ jst'[nCalls'] # "none" /\ nCalls > 0 /\ wstate = "none")
         => (/\ wstate' = "alive" /\ workerRef'
             /\ jst'[nCalls'] = "active"
             /\ btasks'[nCalls'] # "none")]_vars

\* C32: the bridge has at most one worker that it created and did not
\* terminate, and it is the one workerRef holds; a worker is created only when
\* none is held, and the reference is dropped only with the worker terminated
\* (SpecB: any sequence of calls, events and the unmount).
C32_OneWorker ==
    /\ [](wlive <= 1 /\ wlive = (IF workerRef THEN 1 ELSE 0))
    /\ [][(wlive' > wlive) => (~workerRef /\ workerRef')]_vars
    /\ [][(workerRef /\ ~workerRef') => (wlive' = wlive - 1 /\ wstate' = "dying")]_vars

\* the worker that loadCore created was terminated by terminate() and is no
\* longer held
C32_Witness ==
    /\ status = "loading" /\ nCalls = 2
    /\ wstate = "dying" /\ ~workerRef /\ wlive = 0
    /\ \E i \in 1..Len(cmdQ) : cmdQ[i].type = "terminate"

\* C33 (as claimed): the observable state holds an error message only while
\* the status is error.
C33_ErrorOnlyInError == error # "" => status = "error"

\* the status edges the capture session is said to have
StatusEdges ==
    {<<"idle", "ready">>, <<"ready", "recording">>, <<"stopped", "recording">>,
     <<"recording", "stopped">>}
    \cup ({"ready", "stopped", "error"} \X {"ready", "idle"})
    \cup ({"idle", "ready", "recording", "stopped", "error"} \X {"error"})

\* C34 (as claimed): every change of the status of the capture session
\* follows one of the listed edges.
C34_StatusEdges ==
    [][rStatus' # rStatus => <<rStatus, rStatus'>> \in StatusEdges]_vars

\* the recorder of the session is recording / has been stopped and its stop
\* event is still to come
RecorderRuns == rRecorder # 0 /\ recs[rRecorder].state = "recording"
RecorderFinalizing == rRecorder # 0 /\ recs[rRecorder].stop

\* C35 (as claimed, not counting the time between stop() and the stop event
\* against it): the recorder of the session runs only while the status is
\* recording, and while the status is recording the recorder runs or is
\* finalizing.
C35_RecordingIffRecorder ==
    /\ RecorderRuns => rStatus = "recording"
    /\ rStatus = "recording" => (RecorderRuns \/ RecorderFinalizing)

\* the device streams whose tracks have not been stopped
LiveStreams == {d \in DevIds : strms[d] = "live"}

\* C36 (as claimed): at most one device stream is un-stopped at any time, and
\* after cleanup() none is.
C36_OneLiveStream ==
    /\ [](Cardinality(LiveStreams) <= 1)
    /\ [][cleanup => LiveStreams' = {}]_vars

\* C37: at most one object URL of a recording is minted and not revoked, and
\* it is the one urlRef holds; a finalization leaves only the URL it mints
\* live, and reset() and cleanup() leave none (SpecR).
C37_OneLiveRecordingUrl ==
    /\ [](Cardinality(rUrls) <= 1 /\ rUrls \subseteq {rUrlRef})
    /\ [][(nStop' = nStop + 1) => (rUrls' = {nStop'} /\ rUrlRef' = nStop')]_vars
    /\ [][(reset \/ cleanup) => (rUrls' = {} /\ rUrlRef' = 0)]_vars

\* a second recording was finalized: its URL is live, the first was revoked
C37_Witness == nStop = 2 /\ rUrls = {2} /\ rUrlRef = 2 /\ rObjectUrl = 2

\* C38: a warm whose fetches did not both succeed throws in the step in which
\* the fetches settle, leaving the bucket as it is, and stores nothing then or
\* later; the bucket changes only by a put of a warm whose two fetches
\* succeeded (SpecC).
C38_FailedFetchStoresNothing ==
    /\ [][\A o \in OpIds :
            (cops[o].pc = "fetch" /\ cops'[o].res = "throwFetch")
              => (bucketOf' = bucketOf /\ cur' = cur /\ cops'[o].pc = "done")]_vars
    /\ [](\A o \in OpIds :
            cops[o].res = "throwFetch" => (cops[o].pc = "done" /\ cops[o].puts = {}))
    /\ [][bucketOf' # bucketOf
            => \E o \in OpIds : /\ cops[o].kind = "warm" /\ cops[o].pc = "put"
                                /\ cops[o].res # "throwFetch"
                                /\ cops'[o].puts # cops[o].puts]_vars

\* a warm failed at its fetches on an empty bucket, which is still empty
C38_Witness ==
    /\ nOps = 1 /\ cops[1].kind = "warm" /\ cops[1].res = "throwFetch"
    /\ cops[1].pc = "done" /\ bucket = {} /\ hasCaches

====
